---------------------------- MODULE Spec2Model ----------------------------
(***************************************************************************)
(* A model of the mod_pdf utilities: mergepdf.py (natural sort, archive    *)
(* conversion, merge loop, interactive main flow) and resizepdf.py (page   *)
(* geometry, resize loop, interactive main flow).                          *)
(*                                                                         *)
(* Strings are sequences of one-character strings; Printable lists the     *)
(* printable ASCII characters in code-point order so that ordering and     *)
(* case folding are computed from code points as Python does.  The three   *)
(* characters that cannot be written in a string here carry their names.   *)
(***************************************************************************)
EXTENDS Integers, Sequences, FiniteSets, TLC

(***************************************************************************)
(* Bounds of the model.                                                    *)
(***************************************************************************)
MaxLen == 3
MaxDim == 8
MaxInputs == 3
MaxPages == 2

(***************************************************************************)
(* Characters.                                                             *)
(***************************************************************************)
Printable ==
  << " ", "!", "dquote", "#", "$", "%", "&", "'", "(", ")", "*", "+", ",", "-",
     ".", "/", "0", "1", "2", "3", "4", "5", "6", "7", "8", "9", ":", ";",
     "<", "=", ">", "?", "@", "A", "B", "C", "D", "E", "F", "G", "H", "I",
     "J", "K", "L", "M", "N", "O", "P", "Q", "R", "S", "T", "U", "V", "W",
     "X", "Y", "Z", "[", "backslash", "]", "^", "_", "backtick", "a", "b", "c", "d", "e",
     "f", "g", "h", "i", "j", "k", "l", "m", "n", "o", "p", "q", "r", "s",
     "t", "u", "v", "w", "x", "y", "z", "{", "|", "}", "~" >>

CharSet == { Printable[i] : i \in 1..Len(Printable) }

\* ord(c): the code point of a printable ASCII character
OrdTable == [ c \in CharSet |->
               31 + (CHOOSE i \in 1..Len(Printable) : Printable[i] = c) ]

Ord(c) == OrdTable[c]

\* chr(n) for a printable code point
Chr(n) == Printable[n - 31]

\* the character class \d of the pattern, restricted to ASCII
IsDigitChar(c) == Ord(c) \in 48..57

\* str.lower() on one character
LowerChar(c) == IF Ord(c) \in 65..90 THEN Chr(Ord(c) + 32) ELSE c

\* str.lower()
Lower(s) == [ i \in 1..Len(s) |-> LowerChar(s[i]) ]

\* str.isdigit(): non-empty and every character a digit
IsDigit(s) == Len(s) > 0 /\ \A i \in 1..Len(s) : IsDigitChar(s[i])

\* int(text) on a run of ASCII digits
RECURSIVE ParseInt(_)
ParseInt(s) ==
  IF Len(s) = 0 THEN 0
  ELSE 10 * ParseInt(SubSeq(s, 1, Len(s) - 1)) + (Ord(s[Len(s)]) - 48)

(***************************************************************************)
(* re.split on the pattern (\d+): the pieces between the leftmost greedy    *)
(* digit runs, with each digit run kept as a piece of its own.             *)
(***************************************************************************)
\* the scan: piece is the piece being read, in_digits says whether it is a
\* digit run; a piece ends where the next character is of the other kind.
\* An empty text piece stands before a leading, and after a trailing, run.
RECURSIVE SplitScan(_, _, _, _, _)
SplitScan(s, i, piece, in_digits, pieces) ==
  IF i > Len(s) THEN
    IF in_digits THEN pieces \o << piece, << >> >> ELSE Append(pieces, piece)
  ELSE IF IsDigitChar(s[i]) = in_digits
  THEN SplitScan(s, i + 1, Append(piece, s[i]), in_digits, pieces)
  ELSE SplitScan(s, i + 1, << s[i] >>, ~in_digits, Append(pieces, piece))

re_split(s) == SplitScan(s, 1, << >>, FALSE, << >>)

(***************************************************************************)
(* Tokens of a sort key: a Python int or a Python str.                     *)
(***************************************************************************)
IntTok(n) == [ kind |-> "int", num |-> n, str |-> << >> ]
StrTok(t) == [ kind |-> "str", num |-> 0, str |-> t ]

\* a key function that leaves digit runs as text
KeyTokenLexical(text) == StrTok(Lower(text))

\* int(text) if text.isdigit() else text.lower()
KeyToken(text) == IF IsDigit(text) THEN IntTok(ParseInt(text))
                  ELSE StrTok(Lower(text))

\* the list comprehension over the pieces
RECURSIVE KeyTokens(_)
KeyTokens(pieces) ==
  IF Len(pieces) = 0 THEN << >>
  ELSE Append(KeyTokens(SubSeq(pieces, 1, Len(pieces) - 1)),
              KeyToken(pieces[Len(pieces)]))

\* a key function that drops the empty pieces of the split
natural_sort_key_nonempty(s) ==
  KeyTokens(SelectSeq(re_split(s), LAMBDA piece : Len(piece) > 0))

natural_sort_key(s) == KeyTokens(re_split(s))

(***************************************************************************)
(* Python's ordering of str, and of lists of tokens.                       *)
(***************************************************************************)
\* first index at which two sequences differ, 0 if one is a prefix of the other
FirstDiff(a, b) ==
  LET m == IF Len(a) < Len(b) THEN Len(a) ELSE Len(b) IN
  IF \E i \in 1..m : a[i] # b[i]
  THEN CHOOSE i \in 1..m : a[i] # b[i] /\ \A j \in 1..(i - 1) : a[j] = b[j]
  ELSE 0

\* str.__lt__: lexicographic by code point, a proper prefix is smaller
StrLess(a, b) ==
  LET d == FirstDiff(a, b) IN
  IF d = 0 THEN Len(a) < Len(b) ELSE Ord(a[d]) < Ord(b[d])

\* x < y on two tokens: "True", "False", or "TypeError" for int against str
TokLess(x, y) ==
  IF x.kind # y.kind THEN "TypeError"
  ELSE IF x.kind = "int" THEN (IF x.num < y.num THEN "True" ELSE "False")
  ELSE (IF StrLess(x.str, y.str) THEN "True" ELSE "False")

\* list.__lt__: the first unequal pair of elements decides; otherwise the lengths
ListLess(a, b) ==
  LET d == FirstDiff(a, b) IN
  IF d = 0 THEN (IF Len(a) < Len(b) THEN "True" ELSE "False")
  ELSE TokLess(a[d], b[d])

(***************************************************************************)
(* list.sort(key=natural_sort_key): a stable sort that only uses < on the  *)
(* keys; modelled as a stable insertion sort.  The result records the      *)
(* sorted list, or that a comparison raised TypeError (the list is then    *)
(* left in an unspecified order; the model keeps the input order).         *)
(***************************************************************************)
\* the keys of the elements, computed once per element
RECURSIVE KeysOf(_)
KeysOf(xs) ==
  IF Len(xs) = 0 THEN << >>
  ELSE Append(KeysOf(SubSeq(xs, 1, Len(xs) - 1)), natural_sort_key(xs[Len(xs)]))

\* position after which element x is inserted into the sorted list of
\* indices acc: after every element whose key is not greater (stability)
RECURSIVE InsertPos(_, _, _, _)
InsertPos(ks, acc, x, i) ==
  IF i = 0 THEN 0
  ELSE IF ListLess(ks[x], ks[acc[i]]) = "True" THEN InsertPos(ks, acc, x, i - 1)
       ELSE i

Insert(ks, acc, x) ==
  LET p == InsertPos(ks, acc, x, Len(acc)) IN
  SubSeq(acc, 1, p) \o << x >> \o SubSeq(acc, p + 1, Len(acc))

\* the indices 1..n of the list, ordered by key
RECURSIVE SortPrefix(_, _)
SortPrefix(ks, n) ==
  IF n = 0 THEN << >> ELSE Insert(ks, SortPrefix(ks, n - 1), n)

\* some comparison between the keys of two elements raises
SortRaises(ks) ==
  \E i, j \in 1..Len(ks) : ListLess(ks[i], ks[j]) = "TypeError"

RECURSIVE Pick(_, _)
Pick(xs, order) ==
  IF Len(order) = 0 THEN << >>
  ELSE Append(Pick(xs, SubSeq(order, 1, Len(order) - 1)), xs[order[Len(order)]])

\* the order list.sort(key=natural_sort_key) puts the list in, as indices
SortOrder(xs) == SortPrefix(KeysOf(xs), Len(xs))

NaturalSort(xs) ==
  IF SortRaises(KeysOf(xs)) THEN [ raised |-> TRUE, list |-> xs ]
  ELSE [ raised |-> FALSE, list |-> Pick(xs, SortOrder(xs)) ]

(***************************************************************************)
(* Exact rational arithmetic for the page geometry: a rational is a record *)
(* [num, den] in lowest terms with den > 0.                                *)
(***************************************************************************)
RECURSIVE GCD(_, _)
GCD(a, b) == IF b = 0 THEN a ELSE GCD(b, a % b)

Abs(a) == IF a < 0 THEN -a ELSE a

Frac(n, d) ==
  LET g == GCD(Abs(n), d) IN [ num |-> n \div g, den |-> d \div g ]

FracOfInt(k)  == [ num |-> k, den |-> 1 ]
FracDiv(f, g) == Frac(f.num * g.den, f.den * g.num)      \* g > 0
FracMul(f, g) == Frac(f.num * g.num, f.den * g.den)
FracAdd(f, g) == Frac(f.num * g.den + g.num * f.den, f.den * g.den)
FracSub(f, g) == Frac(f.num * g.den - g.num * f.den, f.den * g.den)
FracHalf(f)   == Frac(f.num, 2 * f.den)
FracLeq(f, g) == f.num * g.den <= g.num * f.den
\* min(x, y): y only when y < x
FracMin(f, g) == IF FracLeq(f, g) THEN f ELSE g

(***************************************************************************)
(* The geometry resize_pdf computes for one page: the page is              *)
(* current_width x current_height (rationals), the target is               *)
(* target_width x target_height (positive integers).                       *)
(***************************************************************************)
\* the larger factor: the page fills the target and is cut
FillScale(scale_x, scale_y) == IF FracLeq(scale_x, scale_y) THEN scale_y ELSE scale_x

\* scale = min(scale_x, scale_y)
FitScale(scale_x, scale_y) == FracMin(scale_x, scale_y)

PageGeometry(current_width, current_height, target_width, target_height) ==
  LET scale_x    == FracDiv(FracOfInt(target_width), current_width)
      scale_y    == FracDiv(FracOfInt(target_height), current_height)
      scale      == FitScale(scale_x, scale_y)
      new_width  == FracMul(current_width, scale)
      new_height == FracMul(current_height, scale)
      x_offset   == FracHalf(FracSub(FracOfInt(target_width), new_width))
      y_offset   == FracHalf(FracSub(FracOfInt(target_height), new_height))
  IN  [ scale      |-> scale,
        new_width  |-> new_width,
        new_height |-> new_height,
        x_offset   |-> x_offset,
        y_offset   |-> y_offset,
        img_rect   |-> [ x0 |-> x_offset,
                         y0 |-> y_offset,
                         x1 |-> FracAdd(x_offset, new_width),
                         y1 |-> FracAdd(y_offset, new_height) ] ]

(***************************************************************************)
(* Paths and files.  A path is [dir, name]: a directory and a file name    *)
(* (a string); os.path.join writes it as the directory, "/" and the name.  *)
(***************************************************************************)
DirName == [ d \in { "src", "other", "new", "locked" } |->
             CASE d = "src"    -> << "s", "r", "c" >>
               [] d = "other"  -> << "o", "t", "h", "e", "r" >>
               [] d = "new"    -> << "n", "e", "w" >>
               [] d = "locked" -> << "l", "o", "c", "k", "e", "d" >> ]

\* os.path.join(dir, name)
PathStr(path) == DirName[path.dir] \o << "/" >> \o path.name

Join(dir, name) == [ dir |-> dir, name |-> name ]

DotPdf  == << ".", "p", "d", "f" >>
DotCbz  == << ".", "c", "b", "z" >>
DotJpg  == << ".", "j", "p", "g" >>
DotJpeg == << ".", "j", "p", "e", "g" >>
DotPng  == << ".", "p", "n", "g" >>

\* str.endswith(suffix)
EndsWith(s, suffix) ==
  /\ Len(suffix) <= Len(s)
  /\ SubSeq(s, Len(s) - Len(suffix) + 1, Len(s)) = suffix

\* str.endswith(tuple of suffixes)
EndsWithAny(s, suffixes) == \E x \in suffixes : EndsWith(s, x)

\* os.path.splitext(name)[0]: the name up to its last dot, when that dot
\* follows a character that is not a dot
SplitExtRoot(name) ==
  LET dots == { i \in 2..Len(name) :
                  name[i] = "." /\ \E j \in 1..(i - 1) : name[j] # "." }
  IN  IF dots = { } THEN name
      ELSE LET last == CHOOSE i \in dots : \A j \in dots : j <= i
           IN  SubSeq(name, 1, last - 1)

\* f.lower().endswith(extensions), the filter of find_files_recursively
HasExtension(name, extensions) == EndsWithAny(Lower(name), extensions)

\* the image entries of an archive, in the archive's order
ImageFiles(entries) ==
  SelectSeq(entries, LAMBDA f : HasExtension(f, { DotJpg, DotJpeg, DotPng }))

\* file records
PdfFile(fate, pages) ==
  [ type |-> "pdf", fate |-> fate, pages |-> pages, entries |-> << >> ]
CbzFile(fate, entries) ==
  [ type |-> "cbz", fate |-> fate, pages |-> << >>, entries |-> entries ]
OtherFile == [ type |-> "txt", fate |-> "unopenable", pages |-> << >>,
               entries |-> << >> ]
\* what open(path, "wb") leaves before anything is written
EmptyFile == [ type |-> "pdf", fate |-> "unopenable", pages |-> << >>,
               entries |-> << >> ]

\* the pages of an original PDF: page n of that file
OwnPages(name, n) == [ i \in 1..n |-> [ file |-> name, item |-> << >>, n |-> i ] ]

\* img2pdf.convert(images_data): one page per image, in the order given
ImagePages(name, images) ==
  [ i \in 1..Len(images) |-> [ file |-> name, item |-> images[i], n |-> i ] ]

\* the file system with path written
WriteFile(files, path, file) ==
  [ q \in DOMAIN files \cup { path } |-> IF q = path THEN file ELSE files[q] ]

\* all orderings of a finite set, as sequences (os.walk gives no order)
Orderings(S) ==
  { f \in [ 1..Cardinality(S) -> S ] : \A i, j \in DOMAIN f : f[i] = f[j] => i = j }

(***************************************************************************)
(* get_output_name: the answer stripped; the default when empty; ".pdf"    *)
(* appended unless the lowercased name already ends with it.               *)
(***************************************************************************)
GetOutputName(answer, default) ==
  IF answer = << >> THEN default
  ELSE IF EndsWith(Lower(answer), DotPdf) THEN answer
  ELSE answer \o DotPdf

(***************************************************************************)
(* State.                                                                  *)
(***************************************************************************)
VARIABLES
  names,        \* sort: the list of names handed to sort(key=natural_sort_key)
  keys,         \* sort: natural_sort_key of each name, once computed
  sorted_names, \* sort: the result of the sort, once sorted
  sort_pc,      \* sort: "start", "keyed", "sorted" ("idle" outside SpecSort)
  page_rect,    \* geometry: the source page's [width, height]
  target,       \* geometry: the target [width, height]
  geom,         \* geometry: the computed PageGeometry, once computed
  geom_pc,      \* geometry: "start", "done" ("idle" outside SpecGeom)
  tool,         \* which program runs: "merge", "resize" ("none" when idle)
  pc,           \* the program's position
  dirs,         \* the directories that exist
  fs,           \* the files that exist: path -> file record
  created,      \* history: the directories this run created
  written,      \* history: the paths this run opened for writing
  console,      \* the messages printed so far
  handles,      \* the document handles that are open
  saves,        \* history: how many times the final save was attempted
  folder_path,  \* merge main: the source folder
  output_name,  \* both mains: the output file name
  output_dir,   \* both mains: the output directory
  output_path,  \* merge: os.path.join(output_dir, output_name)
  pdf_files,    \* merge: the list of PDF paths
  cbz_files,    \* merge main: the list of archive paths
  c_i,          \* merge main: index of the next archive to convert
  m_i,          \* merge_pdfs_high_quality: index of the next input
  output_doc,   \* merge_pdfs_high_quality: the pages of the output document
  input_path,   \* resize: the input PDF
  target_width, \* resize: target width in points
  target_height,\* resize: target height in points
  page_num,     \* resize_pdf: index of the next page (from 0, as range())
  doc_input,    \* resize_pdf: the pages of the opened input
  doc_output,   \* resize_pdf: the pages of the output document
  success       \* resize main: what resize_pdf returned ("none" before)

sortVars   == << names, keys, sorted_names, sort_pc >>
geomVars   == << page_rect, target, geom, geom_pc >>
envVars    == << dirs, fs, created, written, console, handles, saves >>
promptVars == << folder_path, output_name, output_dir, output_path >>
mergeVars  == << pdf_files, cbz_files, c_i, m_i, output_doc >>
resizeVars == << input_path, target_width, target_height, page_num,
                 doc_input, doc_output, success >>
toolVars   == << tool, pc, envVars, promptVars, mergeVars, resizeVars >>

vars == << sortVars, geomVars, toolVars >>

(***************************************************************************)
(* Natural sort on its own: the inputs are drawn from all strings of at    *)
(* most MaxLen characters over Alphabet, in pairs, and from the orderings  *)
(* of the example names.                                                   *)
(***************************************************************************)
Alphabet == { "B", ".", "0", "1" }

RECURSIVE StringsOfLen(_)
StringsOfLen(n) ==
  IF n = 0 THEN { << >> }
  ELSE { Append(s, c) : s \in StringsOfLen(n - 1), c \in Alphabet }

Strings == UNION { StringsOfLen(n) : n \in 0..MaxLen }

Img2    == << "i", "m", "g", "2", ".", "p", "n", "g" >>
Img10   == << "i", "m", "g", "1", "0", ".", "p", "n", "g" >>
Img2a   == << "i", "m", "g", "2", "a", ".", "p", "n", "g" >>

Permutations3(a, b, c) ==
  { << a, b, c >>, << a, c, b >>, << b, a, c >>,
    << b, c, a >>, << c, a, b >>, << c, b, a >> }

SortInputs ==
  { << s, t >> : s \in Strings, t \in Strings }
    \cup Permutations3(Img2, Img10, Img2a)

(***************************************************************************)
(* Idle values of each component, for the specifications it is not part of *)
(***************************************************************************)
NoGeom == [ scale |-> FracOfInt(0) ]

GeomIdle ==
  /\ page_rect = [ width |-> FracOfInt(0), height |-> FracOfInt(0) ]
  /\ target = [ width |-> 0, height |-> 0 ]
  /\ geom = NoGeom
  /\ geom_pc = "idle"

NoPath == [ dir |-> "", name |-> << >> ]

ToolIdle ==
  /\ tool = "none"
  /\ pc = "idle"
  /\ dirs = { }
  /\ fs = << >>
  /\ created = { }
  /\ written = { }
  /\ console = { }
  /\ handles = { }
  /\ saves = 0
  /\ folder_path = ""
  /\ output_name = << >>
  /\ output_dir = ""
  /\ output_path = NoPath
  /\ pdf_files = << >>
  /\ cbz_files = << >>
  /\ c_i = 0
  /\ m_i = 0
  /\ output_doc = << >>
  /\ input_path = NoPath
  /\ target_width = 0
  /\ target_height = 0
  /\ page_num = 0
  /\ doc_input = << >>
  /\ doc_output = << >>
  /\ success = "none"

NoSort == [ raised |-> FALSE, list |-> << >> ]

SortIdle ==
  /\ names = << >>
  /\ keys = << >>
  /\ sorted_names = NoSort
  /\ sort_pc = "idle"

InitSort ==
  /\ GeomIdle
  /\ ToolIdle
  /\ names \in SortInputs
  /\ keys = << >>
  /\ sorted_names = NoSort
  /\ sort_pc = "start"

\* the key function applied to every element of the list
ComputeKeys ==
  /\ sort_pc = "start"
  /\ keys' = [ i \in 1..Len(names) |-> natural_sort_key(names[i]) ]
  /\ sort_pc' = "keyed"
  /\ UNCHANGED << names, sorted_names >>
  /\ UNCHANGED << geomVars, toolVars >>

\* the list ordered by the keys
SortNames ==
  /\ sort_pc = "keyed"
  /\ sorted_names' = NaturalSort(names)
  /\ sort_pc' = "sorted"
  /\ UNCHANGED << names, keys >>
  /\ UNCHANGED << geomVars, toolVars >>

NextSort == ComputeKeys \/ SortNames

SpecSort == InitSort /\ [][NextSort]_vars

(***************************************************************************)
(* The page geometry on its own: page sizes are multiples of 100/3 points, *)
(* targets are multiples of 100 points.                                    *)
(***************************************************************************)
TargetDims == { 100 * k : k \in 1..MaxDim }
PageDims   == { Frac(100 * k, d) : k \in 1..MaxDim, d \in { 1, 3 } }

InitGeom ==
  /\ SortIdle
  /\ ToolIdle
  /\ page_rect \in [ width : PageDims, height : PageDims ]
  /\ target \in [ width : TargetDims, height : TargetDims ]
  /\ geom = NoGeom
  /\ geom_pc = "start"

ComputeGeometry ==
  /\ geom_pc = "start"
  /\ geom' = PageGeometry(page_rect.width, page_rect.height,
                          target.width, target.height)
  /\ geom_pc' = "done"
  /\ UNCHANGED << page_rect, target >>
  /\ UNCHANGED << sortVars, toolVars >>

NextGeom == ComputeGeometry

SpecGeom == InitGeom /\ [][NextGeom]_vars

(***************************************************************************)
(* Console messages: a tag and the path or name the message is about.      *)
(* console keeps the messages about files, directories and the outcome of  *)
(* the run; the error line of an input-validation loop, which is followed  *)
(* by the same prompt again, is not kept.                                  *)
(***************************************************************************)
Msg(tag, about) == [ tag |-> tag, about |-> about ]

Said(tag) == \E m \in console : m.tag = tag

(***************************************************************************)
(* get_output_directory(default_dir), the same code in both programs.      *)
(* The answer is "" (Enter), an existing directory, or a directory that    *)
(* does not exist; mkdir succeeds on "new" and raises on "locked".         *)
(* Returns the directory, the directories created and the messages.        *)
(***************************************************************************)
MkdirRaises(dir) == dir = "locked"

\* no fallback: the directory that could not be created is returned
get_output_directory_nofallback(answer, default_dir, existing) ==
  IF answer = ""
  THEN [ dir |-> default_dir, made |-> { }, said |-> { } ]
  ELSE IF answer \in existing
  THEN [ dir |-> answer, made |-> { }, said |-> { } ]
  ELSE IF ~MkdirRaises(answer)
  THEN [ dir |-> answer, made |-> { answer },
         said |-> { Msg("Directory created", DirName[answer]) } ]
  ELSE [ dir |-> answer, made |-> { },
         said |-> { Msg("ERROR: Could not create directory", DirName[answer]) } ]

get_output_directory(answer, default_dir, existing) ==
  IF answer = ""
  THEN [ dir |-> default_dir, made |-> { }, said |-> { } ]
  ELSE IF answer \in existing
  THEN [ dir |-> answer, made |-> { }, said |-> { } ]
  ELSE IF ~MkdirRaises(answer)
  THEN [ dir |-> answer, made |-> { answer },
         said |-> { Msg("Directory created", DirName[answer]) } ]
  ELSE [ dir |-> default_dir, made |-> { },
         said |-> { Msg("ERROR: Could not create directory", DirName[answer]),
                    Msg("Using default directory", DirName[default_dir]) } ]

DirAnswers == { "", "other", "new", "locked" }

NameAnswers == { << >>, << "o" >>, << "o", ".", "P", "D", "F" >> }

MergeNameAnswers == { << >>, << "o" >> }

(***************************************************************************)
(* cbz_to_pdf(cbz_path, output_path): the files after the call, the paths  *)
(* opened for writing, the messages and the returned value (a path, or     *)
(* NoPath for None).                                                       *)
(***************************************************************************)
\* image_files after the filter and image_files.sort(key=natural_sort_key)
SortedImages(entries) == NaturalSort(ImageFiles(entries)).list

cbz_to_pdf(files, cbz_path, out_path) ==
  LET archive     == files[cbz_path]
      image_files == ImageFiles(archive.entries)
      unchanged(said) ==
        [ files |-> files, wrote |-> { }, said |-> { said }, result |-> NoPath ]
  IN  IF archive.fate = "badzip"
      THEN unchanged(Msg("ERROR converting", PathStr(cbz_path)))
      ELSE IF image_files = << >>
      THEN unchanged(Msg("WARNING: No images found", PathStr(cbz_path)))
      ELSE IF NaturalSort(image_files).raised
      THEN unchanged(Msg("ERROR converting", PathStr(cbz_path)))
      ELSE IF archive.fate = "badimage"
      \* open(output_path, "wb") has truncated the file when convert raises
      THEN [ files  |-> WriteFile(files, out_path, EmptyFile),
             wrote  |-> { out_path },
             said   |-> { Msg("ERROR converting", PathStr(cbz_path)) },
             result |-> NoPath ]
      ELSE [ files  |-> WriteFile(files, out_path,
                          PdfFile("ok", ImagePages(cbz_path.name,
                                                   SortedImages(archive.entries)))),
             wrote  |-> { out_path },
             said   |-> { Msg("Converted successfully", PathStr(cbz_path)) },
             result |-> out_path ]

\* os.path.splitext(cbz)[0] + ".pdf"
PdfOut(cbz_path) == Join(cbz_path.dir, SplitExtRoot(cbz_path.name) \o DotPdf)

\* find_files_recursively(folder_path, extensions), as a set
FindFiles(files, folder, extensions) ==
  { q \in DOMAIN files : q.dir = folder /\ HasExtension(q.name, extensions) }

(***************************************************************************)
(* mergepdf.py, main()                                                     *)
(***************************************************************************)
DefaultMergedName == << "m", "e", "r", "g", "e", "d", "_", "o", "u", "t", "p", "u", "t", ".", "p", "d", "f" >>

\* get_valid_folder_path: re-prompts until the answer is a directory
MergePromptFolder ==
  /\ tool = "merge" /\ pc = "m_folder"
  /\ \E answer \in { "src", "new" } :
       IF answer \in dirs
       THEN /\ folder_path' = answer
            /\ pc' = "m_find"
            /\ UNCHANGED console
       ELSE \* "ERROR: Folder does not exist", and the prompt again
            UNCHANGED << pc, folder_path, console >>
  /\ UNCHANGED << tool, dirs, fs, created, written, handles, saves >>
  /\ UNCHANGED << output_name, output_dir, output_path >>
  /\ UNCHANGED << sortVars, geomVars, mergeVars, resizeVars >>

\* the two searches, and the return when nothing was found
MergeFindFiles ==
  /\ tool = "merge" /\ pc = "m_find"
  /\ pdf_files' \in Orderings(FindFiles(fs, folder_path, { DotPdf }))
  /\ cbz_files' \in Orderings(FindFiles(fs, folder_path, { DotCbz }))
  /\ IF pdf_files' = << >> /\ cbz_files' = << >>
     THEN /\ console' = console \cup
                          { Msg("ERROR: No PDF or CBZ files found", << >>) }
          /\ pc' = "m_end"
     ELSE /\ pc' = "m_name"
          /\ UNCHANGED console
  /\ UNCHANGED << tool, dirs, fs, created, written, handles, saves >>
  /\ UNCHANGED << promptVars, c_i, m_i, output_doc >>
  /\ UNCHANGED << sortVars, geomVars, resizeVars >>

\* get_output_name
MergePromptName ==
  /\ tool = "merge" /\ pc = "m_name"
  /\ \E answer \in MergeNameAnswers :
       output_name' = GetOutputName(answer, DefaultMergedName)
  /\ pc' = "m_dir"
  /\ UNCHANGED << tool, envVars, folder_path, output_dir, output_path >>
  /\ UNCHANGED << sortVars, geomVars, mergeVars, resizeVars >>

\* get_output_directory(folder_path) and the join of the output path
MergePromptDir ==
  /\ tool = "merge" /\ pc = "m_dir"
  /\ \E answer \in DirAnswers :
       LET r == get_output_directory(answer, folder_path, dirs) IN
       /\ output_dir' = r.dir
       /\ dirs' = dirs \cup r.made
       /\ created' = created \cup r.made
       /\ console' = console \cup r.said
       /\ output_path' = Join(r.dir, output_name)
  /\ pc' = "m_confirm"
  /\ UNCHANGED << tool, fs, written, handles, saves, folder_path, output_name >>
  /\ UNCHANGED << sortVars, geomVars, mergeVars, resizeVars >>

\* the confirmation: 'no' cancels, anything else proceeds
MergeConfirm ==
  /\ tool = "merge" /\ pc = "m_confirm"
  /\ \E confirm \in { "", "no" } :
       IF confirm = "no"
       THEN /\ console' = console \cup { Msg("Operation cancelled by user", << >>) }
            /\ pc' = "cancelled"
            /\ UNCHANGED c_i
       ELSE /\ pc' = "m_convert"
            /\ c_i' = 1
            /\ UNCHANGED console
  /\ UNCHANGED << tool, dirs, fs, created, written, handles, saves >>
  /\ UNCHANGED << promptVars, pdf_files, cbz_files, m_i, output_doc >>
  /\ UNCHANGED << sortVars, geomVars, resizeVars >>

\* one turn of the conversion loop: cbz_to_pdf and the append of its result
ConvertArchive ==
  /\ tool = "merge" /\ pc = "m_convert"
  /\ c_i <= Len(cbz_files)
  /\ LET cbz == cbz_files[c_i]
         r   == cbz_to_pdf(fs, cbz, PdfOut(cbz))
     IN  /\ fs' = r.files
         /\ written' = written \cup r.wrote
         /\ console' = console \cup r.said
         /\ pdf_files' = IF r.result # NoPath THEN Append(pdf_files, r.result)
                         ELSE pdf_files
  /\ c_i' = c_i + 1
  /\ UNCHANGED << tool, pc, dirs, created, handles, saves >>
  /\ UNCHANGED << promptVars, cbz_files, m_i, output_doc >>
  /\ UNCHANGED << sortVars, geomVars, resizeVars >>

\* the paths of a list, as os.path.join wrote them
RECURSIVE PathStrs(_)
PathStrs(paths) ==
  IF Len(paths) = 0 THEN << >>
  ELSE Append(PathStrs(SubSeq(paths, 1, Len(paths) - 1)), PathStr(paths[Len(paths)]))

\* pdf_files.sort(key=natural_sort_key), on the joined paths; a TypeError
\* from the sort is not caught
SortFiles ==
  /\ tool = "merge" /\ pc = "m_convert"
  /\ c_i > Len(cbz_files)
  /\ LET strs == PathStrs(pdf_files) IN
     IF SortRaises(KeysOf(strs))
     THEN /\ pc' = "crashed"
          /\ UNCHANGED pdf_files
     ELSE /\ pc' = "m_begin"
          /\ pdf_files' = Pick(pdf_files, SortOrder(strs))
  /\ UNCHANGED << tool, envVars, promptVars, cbz_files, c_i, m_i, output_doc >>
  /\ UNCHANGED << sortVars, geomVars, resizeVars >>

(***************************************************************************)
(* mergepdf.py, merge_pdfs_high_quality(pdf_files, output_path)            *)
(***************************************************************************)
PdfDocHandle(i) == [ doc |-> "pdf_doc", at |-> i ]
OutputDocHandle == [ doc |-> "output_doc", at |-> 0 ]

\* fitz.open(pdf_path) raises: no such file, or a file that is no document
OpenRaises(files, path) ==
  \/ path \notin DOMAIN files
  \/ files[path].type # "pdf"
  \/ files[path].fate = "unopenable"

\* output_doc = fitz.open()
MergeBegin ==
  /\ tool = "merge" /\ pc = "m_begin"
  /\ output_doc' = << >>
  /\ handles' = handles \cup { OutputDocHandle }
  /\ m_i' = 1
  /\ pc' = "m_loop"
  /\ UNCHANGED << tool, dirs, fs, created, written, console, saves >>
  /\ UNCHANGED << promptVars, pdf_files, cbz_files, c_i >>
  /\ UNCHANGED << sortVars, geomVars, resizeVars >>

\* a try block around the whole loop: the first failure ends the loop
AfterWarningStop(i, n) == n + 1

\* the index the loop goes on with after the warning of the except clause
AfterWarning(i, n) == i + 1

\* pdf_doc = fitz.open(pdf_path), and the except clause when it raises
MergeOpen ==
  /\ tool = "merge" /\ pc = "m_loop"
  /\ m_i <= Len(pdf_files)
  /\ IF OpenRaises(fs, pdf_files[m_i])
     THEN /\ console' = console \cup
                          { Msg("WARNING: Could not merge", PathStr(pdf_files[m_i])) }
          /\ m_i' = AfterWarning(m_i, Len(pdf_files))
          /\ UNCHANGED << pc, handles >>
     ELSE /\ handles' = handles \cup { PdfDocHandle(m_i) }
          /\ pc' = "m_insert"
          /\ UNCHANGED << console, m_i >>
  /\ UNCHANGED << tool, dirs, fs, created, written, saves >>
  /\ UNCHANGED << promptVars, pdf_files, cbz_files, c_i, output_doc >>
  /\ UNCHANGED << sortVars, geomVars, resizeVars >>

\* output_doc.insert_pdf(pdf_doc); pdf_doc.close().  When insert_pdf raises
\* it may have copied any number of the pages, and close() is skipped.
MergeInsert ==
  /\ tool = "merge" /\ pc = "m_insert"
  /\ LET doc == fs[pdf_files[m_i]] IN
     \/ /\ doc.fate = "ok"
        /\ output_doc' = output_doc \o doc.pages
        /\ handles' = handles \ { PdfDocHandle(m_i) }
        /\ UNCHANGED console
        /\ m_i' = m_i + 1
     \/ /\ doc.fate = "insert_raises"
        /\ \E k \in 0..Len(doc.pages) :
             output_doc' = output_doc \o SubSeq(doc.pages, 1, k)
        /\ UNCHANGED handles
        /\ console' = console \cup
                        { Msg("WARNING: Could not merge", PathStr(pdf_files[m_i])) }
        /\ m_i' = AfterWarning(m_i, Len(pdf_files))
  /\ pc' = "m_loop"
  /\ UNCHANGED << tool, dirs, fs, created, written, saves >>
  /\ UNCHANGED << promptVars, pdf_files, cbz_files, c_i >>
  /\ UNCHANGED << sortVars, geomVars, resizeVars >>

\* output_doc.save(output_path, ...); output_doc.close().  save may raise,
\* and the exception leaves the function.
MergeSave ==
  /\ tool = "merge" /\ pc = "m_loop"
  /\ m_i > Len(pdf_files)
  /\ saves' = saves + 1
  /\ \/ /\ fs' = WriteFile(fs, output_path, PdfFile("ok", output_doc))
        /\ written' = written \cup { output_path }
        /\ handles' = handles \ { OutputDocHandle }
        /\ pc' = "m_returned"
     \/ /\ pc' = "m_raised"
        /\ UNCHANGED << fs, written, handles >>
  /\ UNCHANGED << tool, dirs, created, console >>
  /\ UNCHANGED << promptVars, mergeVars >>
  /\ UNCHANGED << sortVars, geomVars, resizeVars >>

\* main() after the call: the statistics, or the except clause
MergeReport ==
  /\ tool = "merge"
  /\ \/ /\ pc = "m_returned"
        /\ console' = console \cup
                        { Msg("Process completed successfully", PathStr(output_path)) }
     \/ /\ pc = "m_raised"
        /\ console' = console \cup
                        { Msg("ERROR: Could not save merged PDF", PathStr(output_path)) }
  /\ pc' = "m_end"
  /\ UNCHANGED << tool, dirs, fs, created, written, handles, saves >>
  /\ UNCHANGED << promptVars, mergeVars >>
  /\ UNCHANGED << sortVars, geomVars, resizeVars >>

(***************************************************************************)
(* merge_pdfs_high_quality on its own: the caller's list holds at most     *)
(* MaxInputs paths, repetitions allowed, over three files of 3, 5 and 2    *)
(* pages; each file opens and merges, fails to open, or opens and makes    *)
(* insert_pdf raise.                                                       *)
(***************************************************************************)
APdf == Join("src", << "a", ".", "p", "d", "f" >>)
BPdf == Join("src", << "b", ".", "p", "d", "f" >>)
CPdf == Join("src", << "c", ".", "p", "d", "f" >>)
OutPdf == Join("other", << "m", "e", "r", "g", "e", "d", "_", "o", "u", "t", "p", "u", "t", ".", "p", "d", "f" >>)

MergeInputs == { APdf, BPdf, CPdf }

PageCountOf(path) == CASE path = APdf -> 3 [] path = BPdf -> 5 [] path = CPdf -> 2

PdfFates == { "ok", "unopenable", "insert_raises" }

MergeDisks ==
  { [ q \in MergeInputs |-> PdfFile(fate[q], OwnPages(q.name, PageCountOf(q))) ] :
      fate \in [ MergeInputs -> PdfFates ] }

InputLists == UNION { [ 1..n -> MergeInputs ] : n \in 0..MaxInputs }

InitMerge ==
  /\ SortIdle /\ GeomIdle
  /\ tool = "merge"
  /\ pc = "m_begin"
  /\ dirs = { "src", "other" }
  /\ fs \in MergeDisks
  /\ created = { }
  /\ written = { }
  /\ console = { }
  /\ handles = { }
  /\ saves = 0
  /\ folder_path = "src"
  /\ output_name = OutPdf.name
  /\ output_dir = OutPdf.dir
  /\ output_path = OutPdf
  /\ pdf_files \in InputLists
  /\ cbz_files = << >>
  /\ c_i = 0
  /\ m_i = 0
  /\ output_doc = << >>
  /\ input_path = NoPath
  /\ target_width = 0
  /\ target_height = 0
  /\ page_num = 0
  /\ doc_input = << >>
  /\ doc_output = << >>
  /\ success = "none"

NextMerge == MergeBegin \/ MergeOpen \/ MergeInsert \/ MergeSave

SpecMerge == InitMerge /\ [][NextMerge]_vars

(***************************************************************************)
(* resizepdf.py, main() and resize_pdf                                     *)
(***************************************************************************)
DefaultResizedName == << "r", "e", "s", "i", "z", "e", "d", "_", "o", "u", "t", "p", "u", "t", ".", "p", "d", "f" >>

InPdf    == Join("src", << "i", "n", ".", "p", "d", "f" >>)
GonePdf  == Join("src", << "g", "o", "n", "e", ".", "p", "d", "f" >>)
NotesTxt == Join("src", << "n", "o", "t", "e", "s", ".", "t", "x", "t" >>)

DocInputHandle  == [ doc |-> "doc_input", at |-> 0 ]
DocOutputHandle == [ doc |-> "doc_output", at |-> 0 ]

\* get_valid_path: re-prompts until the file exists and is named *.pdf
ResizePromptPath ==
  /\ tool = "resize" /\ pc = "r_path"
  /\ \E answer \in { InPdf, GonePdf, NotesTxt } :
       IF answer \in DOMAIN fs
       THEN IF EndsWith(Lower(answer.name), DotPdf)
            THEN /\ input_path' = answer
                 /\ pc' = "r_width"
                 /\ UNCHANGED console
            ELSE \* "ERROR: File is not a PDF", and the prompt again
                 UNCHANGED << pc, input_path, console >>
       ELSE \* "ERROR: File does not exist", and the prompt again
            UNCHANGED << pc, input_path, console >>
  /\ UNCHANGED << tool, dirs, fs, created, written, handles, saves >>
  /\ UNCHANGED << promptVars, mergeVars >>
  /\ UNCHANGED << target_width, target_height, page_num, doc_input, doc_output,
                  success >>
  /\ UNCHANGED << sortVars, geomVars >>

\* the answers to a dimension prompt: text that int() rejects, or an integer
DimAnswers ==
  { [ int |-> FALSE, value |-> 0 ] }
    \cup { [ int |-> TRUE, value |-> v ] : v \in { -5, 0, 300, 1200 } }

\* get_valid_dimension: the value when the answer is a positive integer,
\* 0 when the answer is rejected ("ERROR: Please enter a valid integer
\* number" or "ERROR: Dimension must be a positive number") and the prompt
\* is repeated
get_valid_dimension(answer) ==
  IF ~answer.int THEN 0
  ELSE IF answer.value > 0 THEN answer.value
  ELSE 0

ResizePromptWidth ==
  /\ tool = "resize" /\ pc = "r_width"
  /\ \E answer \in DimAnswers :
       LET value == get_valid_dimension(answer) IN
       IF value > 0
       THEN target_width' = value /\ pc' = "r_height"
       ELSE UNCHANGED << target_width, pc >>
  /\ UNCHANGED << tool, envVars, promptVars, mergeVars >>
  /\ UNCHANGED << input_path, target_height, page_num, doc_input, doc_output,
                  success >>
  /\ UNCHANGED << sortVars, geomVars >>

ResizePromptHeight ==
  /\ tool = "resize" /\ pc = "r_height"
  /\ \E answer \in DimAnswers :
       LET value == get_valid_dimension(answer) IN
       IF value > 0
       THEN target_height' = value /\ pc' = "r_name"
       ELSE UNCHANGED << target_height, pc >>
  /\ UNCHANGED << tool, envVars, promptVars, mergeVars >>
  /\ UNCHANGED << input_path, target_width, page_num, doc_input, doc_output,
                  success >>
  /\ UNCHANGED << sortVars, geomVars >>

\* get_output_name
ResizePromptName ==
  /\ tool = "resize" /\ pc = "r_name"
  /\ \E answer \in NameAnswers :
       output_name' = GetOutputName(answer, DefaultResizedName)
  /\ pc' = "r_dir"
  /\ UNCHANGED << tool, envVars, folder_path, output_dir, output_path >>
  /\ UNCHANGED << sortVars, geomVars, mergeVars, resizeVars >>

\* get_output_directory(os.path.dirname(input_path))
ResizePromptDir ==
  /\ tool = "resize" /\ pc = "r_dir"
  /\ \E answer \in DirAnswers :
       LET r == get_output_directory(answer, input_path.dir, dirs) IN
       /\ output_dir' = r.dir
       /\ dirs' = dirs \cup r.made
       /\ created' = created \cup r.made
       /\ console' = console \cup r.said
  /\ pc' = "r_confirm"
  /\ UNCHANGED << tool, fs, written, handles, saves >>
  /\ UNCHANGED << folder_path, output_name, output_path >>
  /\ UNCHANGED << sortVars, geomVars, mergeVars, resizeVars >>

\* the confirmation: 'no' cancels, anything else calls resize_pdf
ResizeConfirm ==
  /\ tool = "resize" /\ pc = "r_confirm"
  /\ \E confirm \in { "", "no" } :
       IF confirm = "no"
       THEN /\ console' = console \cup { Msg("Operation cancelled by user", << >>) }
            /\ pc' = "cancelled"
       ELSE /\ pc' = "r_start"
            /\ UNCHANGED console
  /\ UNCHANGED << tool, dirs, fs, created, written, handles, saves >>
  /\ UNCHANGED << promptVars, mergeVars, resizeVars >>
  /\ UNCHANGED << sortVars, geomVars >>

\* resize_pdf up to the try: the existence check, the mkdir of the output
\* directory (parents=True, exist_ok=True) and the join of the output path
ResizeStart ==
  /\ tool = "resize" /\ pc = "r_start"
  /\ IF input_path \notin DOMAIN fs
     THEN /\ console' = console \cup
                          { Msg("ERROR: File does not exist!", PathStr(input_path)) }
          /\ success' = "False"
          /\ pc' = "r_returned"
          /\ UNCHANGED << dirs, created, output_path >>
     ELSE /\ dirs' = dirs \cup { output_dir }
          /\ created' = created \cup ({ output_dir } \ dirs)
          /\ output_path' = Join(output_dir, output_name)
          /\ pc' = "r_open"
          /\ UNCHANGED << console, success >>
  /\ UNCHANGED << tool, fs, written, handles, saves >>
  /\ UNCHANGED << folder_path, output_name, output_dir >>
  /\ UNCHANGED << input_path, target_width, target_height, page_num, doc_input,
                  doc_output >>
  /\ UNCHANGED << sortVars, geomVars, mergeVars >>

\* doc_input = fitz.open(input_path); doc_output = fitz.open()
ResizeOpen ==
  /\ tool = "resize" /\ pc = "r_open"
  /\ IF OpenRaises(fs, input_path)
     THEN /\ console' = console \cup
                          { Msg("ERROR during process", PathStr(input_path)) }
          /\ success' = "False"
          /\ pc' = "r_returned"
          /\ UNCHANGED << handles, doc_input, doc_output, page_num >>
     ELSE /\ handles' = handles \cup { DocInputHandle, DocOutputHandle }
          /\ doc_input' = fs[input_path].pages
          /\ doc_output' = << >>
          /\ page_num' = 0
          /\ pc' = "r_loop"
          /\ UNCHANGED << console, success >>
  /\ UNCHANGED << tool, dirs, fs, created, written, saves >>
  /\ UNCHANGED << promptVars, mergeVars >>
  /\ UNCHANGED << input_path, target_width, target_height >>
  /\ UNCHANGED << sortVars, geomVars >>

\* new_page called with the two dimensions exchanged
NewPageSwapped(page, n, width, height) ==
  [ width  |-> height,
    height |-> width,
    from   |-> n,
    image  |-> PageGeometry(page.width, page.height, width, height).img_rect ]

\* the page doc_output.new_page and insert_image make from source page n
NewPage(page, n, width, height) ==
  [ width  |-> width,
    height |-> height,
    from   |-> n,
    image  |-> PageGeometry(page.width, page.height, width, height).img_rect ]

\* the index the loop goes on with after a page
NextPageNum(n) == n + 1

\* one turn of the page loop; rendering the page may raise, which the
\* except clause of resize_pdf turns into the return of False
ResizePage ==
  /\ tool = "resize" /\ pc = "r_loop"
  /\ page_num < Len(doc_input)
  /\ LET page == doc_input[page_num + 1] IN
     IF page.ok
     THEN /\ doc_output' = Append(doc_output,
                             NewPage(page, page_num, target_width, target_height))
          /\ page_num' = NextPageNum(page_num)
          /\ UNCHANGED << console, success, pc >>
     ELSE /\ console' = console \cup
                          { Msg("ERROR during process", PathStr(input_path)) }
          /\ success' = "False"
          /\ pc' = "r_returned"
          /\ UNCHANGED << doc_output, page_num >>
  /\ UNCHANGED << tool, dirs, fs, created, written, handles, saves >>
  /\ UNCHANGED << promptVars, mergeVars >>
  /\ UNCHANGED << input_path, target_width, target_height, doc_input >>
  /\ UNCHANGED << sortVars, geomVars >>

\* doc_output.save(output_path, ...), the two close() calls and the
\* statistics, whose average time per page divides by total_pages
ResizeSave ==
  /\ tool = "resize" /\ pc = "r_loop"
  /\ page_num >= Len(doc_input)
  /\ saves' = saves + 1
  /\ \/ /\ fs' = WriteFile(fs, output_path, PdfFile("ok", doc_output))
        /\ written' = written \cup { output_path }
        /\ handles' = handles \ { DocInputHandle, DocOutputHandle }
        /\ IF Len(doc_input) = 0
           THEN /\ console' = console \cup
                                { Msg("ERROR during process", PathStr(input_path)) }
                /\ success' = "False"
           ELSE /\ console' = console \cup
                                { Msg("Process completed successfully",
                                      PathStr(output_path)) }
                /\ success' = "True"
     \/ /\ console' = console \cup
                        { Msg("ERROR during process", PathStr(input_path)) }
        /\ success' = "False"
        /\ UNCHANGED << fs, written, handles >>
  /\ pc' = "r_returned"
  /\ UNCHANGED << tool, dirs, created >>
  /\ UNCHANGED << promptVars, mergeVars >>
  /\ UNCHANGED << input_path, target_width, target_height, page_num, doc_input,
                  doc_output >>
  /\ UNCHANGED << sortVars, geomVars >>

\* main() after the call
ResizeReport ==
  /\ tool = "resize" /\ pc = "r_returned"
  /\ console' = console \cup
       { IF success = "True"
         THEN Msg("Operation completed successfully!", << >>)
         ELSE Msg("Operation failed. Check errors above.", << >>) }
  /\ pc' = "r_end"
  /\ UNCHANGED << tool, dirs, fs, created, written, handles, saves >>
  /\ UNCHANGED << promptVars, mergeVars, resizeVars >>
  /\ UNCHANGED << sortVars, geomVars >>

(***************************************************************************)
(* The two programs, from their first prompt.                              *)
(*                                                                         *)
(* The merge tool's folder holds notes.txt and, for each of the base names *)
(* 2 and 10, possibly a PDF and possibly an archive.  The resize tool's    *)
(* folder holds notes.txt and in.pdf, a document of at most MaxPages       *)
(* pages.  The directories src and other exist; new and locked do not.     *)
(***************************************************************************)
Bases == { << "2" >>, << "1", "0" >> }

PdfChoices == { "absent", "ok", "unopenable", "insert_raises" }
CbzChoices == { "absent", "noimages", "images", "badzip", "badimage" }

ReadmeTxt == << "r", "e", "a", "d", "m", "e", ".", "t", "x", "t" >>
P10Jpg    == << "p", "1", "0", ".", "j", "p", "g" >>
P2Png     == << "P", "2", ".", "P", "N", "G" >>

ArchiveOf(choice) ==
  CASE choice = "noimages" -> CbzFile("ok", << ReadmeTxt >>)
    [] choice = "images"   -> CbzFile("ok", << P10Jpg, ReadmeTxt, P2Png >>)
    [] choice = "badzip"   -> CbzFile("badzip", << >>)
    [] choice = "badimage" -> CbzFile("badimage", << P10Jpg, P2Png >>)

MergeFolder(pdfc, cbzc) ==
  LET pdfs == { Join("src", b \o DotPdf) : b \in { x \in Bases : pdfc[x] # "absent" } }
      cbzs == { Join("src", b \o DotCbz) : b \in { x \in Bases : cbzc[x] # "absent" } }
  IN  [ q \in pdfs \cup cbzs \cup { NotesTxt } |->
          IF q = NotesTxt THEN OtherFile
          ELSE IF q \in pdfs
          THEN PdfFile(pdfc[SplitExtRoot(q.name)], OwnPages(q.name, 2))
          ELSE ArchiveOf(cbzc[SplitExtRoot(q.name)]) ]

MergeFolders ==
  { MergeFolder(pdfc, cbzc) :
      pdfc \in [ Bases -> PdfChoices ], cbzc \in [ Bases -> CbzChoices ] }

\* the pages of the resize tool's input: portrait or landscape, and whether
\* rendering the page works
InputPages ==
  { [ width |-> FracOfInt(r[1]), height |-> FracOfInt(r[2]), ok |-> ok ] :
      r \in { << 600, 800 >>, << 800, 600 >> }, ok \in BOOLEAN }

InputDocs ==
  { PdfFile("ok", pages) :
      pages \in UNION { [ 1..n -> InputPages ] : n \in 0..MaxPages } }
    \cup { PdfFile("unopenable", << >>) }

ResizeFolders ==
  { [ q \in { InPdf, NotesTxt } |-> IF q = InPdf THEN doc ELSE OtherFile ] :
      doc \in InputDocs }

Init ==
  /\ SortIdle /\ GeomIdle
  /\ tool \in { "merge", "resize" }
  /\ pc = IF tool = "merge" THEN "m_folder" ELSE "r_path"
  /\ dirs = { "src", "other" }
  /\ fs \in IF tool = "merge" THEN MergeFolders ELSE ResizeFolders
  /\ created = { }
  /\ written = { }
  /\ console = { }
  /\ handles = { }
  /\ saves = 0
  /\ folder_path = ""
  /\ output_name = << >>
  /\ output_dir = ""
  /\ output_path = NoPath
  /\ pdf_files = << >>
  /\ cbz_files = << >>
  /\ c_i = 0
  /\ m_i = 0
  /\ output_doc = << >>
  /\ input_path = NoPath
  /\ target_width = 0
  /\ target_height = 0
  /\ page_num = 0
  /\ doc_input = << >>
  /\ doc_output = << >>
  /\ success = "none"

Next ==
  \/ MergePromptFolder \/ MergeFindFiles \/ MergePromptName \/ MergePromptDir
  \/ MergeConfirm \/ ConvertArchive \/ SortFiles
  \/ MergeBegin \/ MergeOpen \/ MergeInsert \/ MergeSave \/ MergeReport
  \/ ResizePromptPath \/ ResizePromptWidth \/ ResizePromptHeight
  \/ ResizePromptName \/ ResizePromptDir \/ ResizeConfirm
  \/ ResizeStart \/ ResizeOpen \/ ResizePage \/ ResizeSave \/ ResizeReport

Spec == Init /\ [][Next]_vars

(***************************************************************************)
(* Properties of natural_sort_key, checked under SpecSort                  *)
(***************************************************************************)
KeyOf(name) == keys[CHOOSE i \in 1..Len(names) : names[i] = name]

IsExampleNames == { names[i] : i \in 1..Len(names) } = { Img2, Img10, Img2a }

\* C4, as the specification states it: the keys of the three names compare
\* as key(img2.png) < key(img10.png) < key(img2a.png), so sorting the names
\* gives img2.png, img10.png, img2a.png.
C4_StatedOrder ==
  IsExampleNames =>
    /\ sort_pc \in { "keyed", "sorted" } =>
         /\ ListLess(KeyOf(Img2), KeyOf(Img10)) = "True"
         /\ ListLess(KeyOf(Img10), KeyOf(Img2a)) = "True"
    /\ sort_pc = "sorted" => sorted_names.list = << Img2, Img10, Img2a >>

\* C4, as the code behaves: the keys compare as
\* key(img2.png) < key(img2a.png) < key(img10.png), because the number 2 is
\* below the number 10 and the shorter key [img, 2, .png] is decided by its
\* third token ".png" < "a.png"; sorting the three names, from any order,
\* gives img2.png, img2a.png, img10.png without an error.
C4_NaturalOrder ==
  IsExampleNames =>
    /\ sort_pc \in { "keyed", "sorted" } =>
         /\ ListLess(KeyOf(Img2), KeyOf(Img2a)) = "True"
         /\ ListLess(KeyOf(Img2a), KeyOf(Img10)) = "True"
         /\ ListLess(KeyOf(Img2), KeyOf(Img10)) = "True"
    /\ sort_pc = "sorted" =>
         /\ ~sorted_names.raised
         /\ sorted_names.list = << Img2, Img2a, Img10 >>

C4_Witness ==
  /\ sort_pc = "sorted"
  /\ names = << Img10, Img2a, Img2 >>
  /\ sorted_names.list = << Img2, Img2a, Img10 >>

IsStrictPrefix(a, b) ==
  /\ Len(a) < Len(b)
  /\ \A i \in 1..Len(a) : a[i] = b[i]

\* the tokens of a key alternate, beginning and ending with text
AlternatingKey(key) ==
  /\ Len(key) % 2 = 1
  /\ \A i \in 1..Len(key) :
       IF i % 2 = 1
       THEN /\ key[i].kind = "str"
            /\ \A j \in 1..Len(key[i].str) :
                 /\ ~IsDigitChar(key[i].str[j])
                 /\ LowerChar(key[i].str[j]) = key[i].str[j]
       ELSE /\ key[i].kind = "int"
            /\ key[i].num >= 0

\* C8: every key is a sequence of tokens in which text (lower-cased, without
\* digits, possibly empty) and numbers alternate, beginning with text; at
\* every position two keys have in common the tokens therefore have the same
\* type, comparing two keys never raises a TypeError, the sort never raises,
\* and a key that is a strict prefix of another is the smaller one, so its
\* name is sorted first.
C8_KeysAlternate ==
  sort_pc \in { "keyed", "sorted" } =>
    /\ \A i \in 1..Len(keys) : AlternatingKey(keys[i])
    /\ \A i, j \in 1..Len(keys) :
         /\ \A k \in 1..Len(keys[i]) :
              k <= Len(keys[j]) => keys[i][k].kind = keys[j][k].kind
         /\ ListLess(keys[i], keys[j]) # "TypeError"
         /\ IsStrictPrefix(keys[i], keys[j]) =>
              /\ ListLess(keys[i], keys[j]) = "True"
              /\ ListLess(keys[j], keys[i]) = "False"
              /\ (sort_pc = "sorted" /\ Len(names) = 2) =>
                   sorted_names.list = << names[i], names[j] >>
    /\ sort_pc = "sorted" =>
         /\ ~sorted_names.raised
         /\ Len(sorted_names.list) = Len(names)
         /\ \A i \in 1..(Len(names) - 1) :
              ListLess(natural_sort_key(sorted_names.list[i + 1]),
                       natural_sort_key(sorted_names.list[i])) = "False"

\* the names "B1" and "B" given longest first: the key of "B" is [b], a
\* strict prefix of the key [b, 1, ""] of "B1", and "B" comes first
C8_Witness ==
  /\ sort_pc = "sorted"
  /\ names = << << "B", "1" >>, << "B" >> >>
  /\ IsStrictPrefix(keys[2], keys[1])
  /\ ~sorted_names.raised
  /\ sorted_names.list = << << "B" >>, << "B", "1" >> >>

(***************************************************************************)
(* Properties of the page geometry, checked under SpecGeom                 *)
(***************************************************************************)
Zero == FracOfInt(0)

\* C3: in exact rational arithmetic the scaled page is no larger than the
\* target in either dimension, it has the aspect ratio of the source, one of
\* its dimensions equals the target's, both offsets are at least 0, and the
\* image rectangle lies inside the target page; a 600 x 800 page in a
\* 300 x 300 target has scale 3/8, size 225 x 300 and offsets (75/2, 0).
C3_ImageFitsTarget ==
  geom_pc = "done" =>
    LET tw == FracOfInt(target.width)
        th == FracOfInt(target.height)
    IN  /\ geom.scale = FracMin(FracDiv(tw, page_rect.width),
                                FracDiv(th, page_rect.height))
        /\ FracLeq(geom.new_width, tw)
        /\ FracLeq(geom.new_height, th)
        /\ geom.new_width = tw \/ geom.new_height = th
        /\ FracMul(geom.new_width, page_rect.height)
             = FracMul(geom.new_height, page_rect.width)
        /\ FracLeq(Zero, geom.x_offset)
        /\ FracLeq(Zero, geom.y_offset)
        /\ FracLeq(Zero, geom.img_rect.x0)
        /\ FracLeq(Zero, geom.img_rect.y0)
        /\ FracLeq(geom.img_rect.x1, tw)
        /\ FracLeq(geom.img_rect.y1, th)
        /\ FracSub(geom.img_rect.x1, geom.img_rect.x0) = geom.new_width
        /\ FracSub(geom.img_rect.y1, geom.img_rect.y0) = geom.new_height
        /\ FracSub(tw, geom.img_rect.x1) = geom.img_rect.x0
        /\ FracSub(th, geom.img_rect.y1) = geom.img_rect.y0
        /\ ( /\ page_rect.width = FracOfInt(600)
             /\ page_rect.height = FracOfInt(800)
             /\ target.width = 300 /\ target.height = 300 ) =>
               /\ geom.scale = Frac(3, 8)
               /\ geom.new_width = FracOfInt(225)
               /\ geom.new_height = FracOfInt(300)
               /\ geom.x_offset = Frac(75, 2)
               /\ geom.y_offset = Zero

C3_Witness ==
  /\ geom_pc = "done"
  /\ page_rect.width = FracOfInt(600) /\ page_rect.height = FracOfInt(800)
  /\ target.width = 300 /\ target.height = 300
  /\ geom.scale = Frac(3, 8)
  /\ geom.img_rect = [ x0 |-> Frac(75, 2), y0 |-> Zero,
                       x1 |-> Frac(525, 2), y1 |-> FracOfInt(300) ]

(***************************************************************************)
(* Properties of merge_pdfs_high_quality, checked under SpecMerge          *)
(***************************************************************************)
\* the pages of those of the first n inputs that open, in list order
RECURSIVE PagesOfOpened(_, _, _)
PagesOfOpened(files, list, n) ==
  IF n = 0 THEN << >>
  ELSE PagesOfOpened(files, list, n - 1)
         \o (IF OpenRaises(files, list[n]) THEN << >> ELSE files[list[n]].pages)

\* every input either opens and is inserted whole, or fails to open
FailuresAreOpenFailures ==
  \A i \in 1..Len(pdf_files) :
    OpenRaises(fs, pdf_files[i]) \/ fs[pdf_files[i]].fate = "ok"

FailedInputs(n) == { i \in 1..n : OpenRaises(fs, pdf_files[i]) }

C5_HandlesReleased ==
  tool = "merge" =>
    /\ pc = "m_loop" => handles \subseteq { OutputDocHandle }
    /\ pc \in { "m_returned", "m_raised" } => handles = { }

(***************************************************************************)
(* Properties of the two programs, checked under Spec                      *)
(***************************************************************************)
\* C2: the resize loop handles the pages one at a time in source order, so
\* the document under construction holds one page per source page handled,
\* page i made from source page i and of exactly the target width and
\* height; a written output has as many pages as the input, in the same
\* order; when a page of the input fails, nothing is saved and the result
\* is False.
C2_ResizePreservesPages ==
  tool = "resize" =>
    /\ pc = "r_loop" =>
         /\ page_num <= Len(doc_input)
         /\ Len(doc_output) = page_num
         /\ \A i \in 1..Len(doc_output) :
              /\ doc_output[i].from = i - 1
              /\ doc_output[i].width = target_width
              /\ doc_output[i].height = target_height
    /\ output_path \in written =>
         /\ fs[output_path].type = "pdf"
         /\ Len(fs[output_path].pages) = Len(fs[input_path].pages)
         /\ \A i \in 1..Len(fs[output_path].pages) :
              /\ fs[output_path].pages[i].from = i - 1
              /\ fs[output_path].pages[i].width = target_width
              /\ fs[output_path].pages[i].height = target_height
    /\ ( /\ pc \in { "r_returned", "r_end" }
         /\ input_path \in DOMAIN fs
         /\ \E i \in 1..Len(fs[input_path].pages) : ~fs[input_path].pages[i].ok ) =>
           /\ success = "False"
           /\ written = { }
           /\ saves = 0

\* a two-page input resized to 300 x 1200 and reported as a success
C2_Witness ==
  /\ tool = "resize" /\ pc = "r_end"
  /\ success = "True"
  /\ output_path \in written
  /\ Len(fs[output_path].pages) = 2
  /\ target_width = 300 /\ target_height = 1200
  /\ fs[output_path].pages[2].from = 1

MkdirFailed == Said("ERROR: Could not create directory")

SaveFailed == saves >= 1 /\ output_path \notin written

DefaultDir == IF tool = "merge" THEN folder_path ELSE input_path.dir

\* the PDFs cbz_to_pdf may have written: one beside each archive
ConvertedPaths == { PdfOut(cbz_files[i]) : i \in 1..Len(cbz_files) }

NoImages(files, cbz) ==
  /\ files[cbz].fate # "badzip"
  /\ ImageFiles(files[cbz].entries) = << >>

\* the run has found an archive without qualifying images
HasZeroImageArchive ==
  \E i \in 1..Len(cbz_files) : NoImages(fs, cbz_files[i])

\* a turn of the conversion loop
ConvertTurn ==
  /\ pc = "m_convert"
  /\ c_i <= Len(cbz_files)
  /\ c_i' = c_i + 1

\* the successful save of the merged output
SavedTurn == pc = "m_loop" /\ pc' = "m_returned"

Elems(list) == { list[i] : i \in 1..Len(list) }

\* C7: in a merge run that has found an archive without qualifying images,
\* the turn of the conversion loop on that archive prints the warning,
\* writes no file, leaves the merge list as it is and goes on with the next
\* archive; every turn of the loop leaves the sources already in the merge
\* list as they were found; and the output the run saves holds, in the
\* order of the merge list, the pages of every PDF found in the folder and
\* of every PDF converted from an archive.
C7_ZeroImageArchiveSkipped ==
  [][ (tool = "merge" /\ HasZeroImageArchive) =>
        /\ (ConvertTurn /\ NoImages(fs, cbz_files[c_i])) =>
             /\ Msg("WARNING: No images found", PathStr(cbz_files[c_i])) \in console'
             /\ fs' = fs
             /\ written' = written
             /\ pdf_files' = pdf_files
             /\ pc' = "m_convert"
        /\ ConvertTurn =>
             \A q \in Elems(pdf_files) : fs'[q] = fs[q]
        /\ SavedTurn =>
             /\ \A i \in 1..Len(cbz_files) :
                  ( /\ fs[cbz_files[i]].fate = "ok"
                    /\ ~NoImages(fs, cbz_files[i]) ) =>
                      PdfOut(cbz_files[i]) \in Elems(pdf_files)
             /\ FailuresAreOpenFailures =>
                  fs'[output_path].pages
                    = PagesOfOpened(fs, pdf_files, Len(pdf_files))
    ]_vars

\* C9: the merge list never holds a path twice, and a file written during a
\* run is never a file already in the merge list, so converting an archive
\* never overwrites a PDF found in the folder and no file is merged twice.
C9_NoDuplicateNoOverwrite ==
  [][ tool = "merge" =>
        /\ \A i, j \in 1..Len(pdf_files') : pdf_files'[i] = pdf_files'[j] => i = j
        /\ (written' \ written) \cap Elems(pdf_files) = { }
    ]_vars

\* C10: a run cancelled at the confirmation has created no directory and
\* written no file.
C10_CancelChangesNothing ==
  pc = "cancelled" => (created = { } /\ written = { } /\ dirs = { "src", "other" })

=============================================================================
